---- MODULE Spec2Model ----
(***************************************************************************)
(* Column-lineage extraction of src/sqlparser.py over the token trees of   *)
(* the sqlparse library.  SQL text is a TLA+ string; a node of the parse   *)
(* tree is a record carrying its class, its token type, its source text,   *)
(* its children and the three names the library exposes for it.            *)
(***************************************************************************)
EXTENDS Integers, Sequences, FiniteSets, TLC

\* Python's None (JSON null); no SQL text of the model equals it.
None == "<None>"

-----------------------------------------------------------------------------
(* Strings *)

\* Python `sub in s` on strings: substring containment.
Contains(sub, s) ==
    \E i \in 1..(Len(s) - Len(sub) + 1) : SubSeq(s, i, i + Len(sub) - 1) = sub

UpperChar(c) ==
    CASE c = "a" -> "A" [] c = "b" -> "B" [] c = "c" -> "C" [] c = "d" -> "D"
      [] c = "e" -> "E" [] c = "f" -> "F" [] c = "g" -> "G" [] c = "h" -> "H"
      [] c = "i" -> "I" [] c = "j" -> "J" [] c = "k" -> "K" [] c = "l" -> "L"
      [] c = "m" -> "M" [] c = "n" -> "N" [] c = "o" -> "O" [] c = "p" -> "P"
      [] c = "q" -> "Q" [] c = "r" -> "R" [] c = "s" -> "S" [] c = "t" -> "T"
      [] c = "u" -> "U" [] c = "v" -> "V" [] c = "w" -> "W" [] c = "x" -> "X"
      [] c = "y" -> "Y" [] c = "z" -> "Z" [] OTHER -> c

RECURSIVE Upper(_)
\* str.upper()
Upper(s) ==
    IF Len(s) = 0 THEN ""
    ELSE IF Len(s) = 1 THEN UpperChar(s)
    ELSE Upper(SubSeq(s, 1, Len(s) \div 2)) \o Upper(SubSeq(s, Len(s) \div 2 + 1, Len(s)))

-----------------------------------------------------------------------------
(* Parse-tree nodes, as sqlparse groups them *)

RECURSIVE JoinValues(_)
\* The source text of a group is the concatenation of its children's text.
JoinValues(tokens) ==
    IF Len(tokens) = 0 THEN ""
    ELSE Head(tokens).value \o JoinValues(Tail(tokens))

\* A leaf token: sqlparse.sql.Token with a ttype.
Tok(ttype, value) ==
    [cls |-> "Token", ttype |-> ttype, value |-> value, tokens |-> <<>>,
     real_name |-> None, parent_name |-> None, alias |-> None]

\* A grouped node: a TokenList subclass; ttype is None.
Group(cls, tokens, real_name, parent_name, alias) ==
    [cls |-> cls, ttype |-> None, value |-> JoinValues(tokens), tokens |-> tokens,
     real_name |-> real_name, parent_name |-> parent_name, alias |-> alias]

WS == Tok("Whitespace", " ")
Kw(k) == Tok("Keyword", k)
Punct(p) == Tok("Punctuation", p)
NameTok(n) == Tok("Name", n)
WildcardTok == Tok("Wildcard", "*")

\* `name`
Ident(name) == Group("Identifier", <<NameTok(name)>>, name, None, None)

\* `q.name`
QIdent(q, name) ==
    Group("Identifier", <<NameTok(q), Punct("."), NameTok(name)>>, name, q, None)

\* `ident alias`: the identifier extended by a positional alias.
Aliased(ident, alias) ==
    Group("Identifier", ident.tokens \o <<WS, Ident(alias)>>,
          ident.real_name, ident.parent_name, alias)

\* `ident AS alias`
AsAliased(ident, alias) ==
    Group("Identifier", ident.tokens \o <<WS, Kw("AS"), WS, Ident(alias)>>,
          ident.real_name, ident.parent_name, alias)

\* `inner AS alias` for a Parenthesis or Function: an Identifier wrapping it.
Wrapped(inner, real_name, alias) ==
    Group("Identifier", <<inner, WS, Kw("AS"), WS, Ident(alias)>>,
          real_name, None, alias)

\* `(` tokens `)`
Paren(tokens) ==
    Group("Parenthesis", <<Punct("(")>> \o tokens \o <<Punct(")")>>, None, None, None)

\* `fname(arg)`: the function name Identifier followed by the Parenthesis.
Func(fname, args) ==
    Group("Function", <<Ident(fname), Paren(args)>>, fname, None, None)

\* `left op right`
Compare(left, op, right) ==
    Group("Comparison", <<left, WS, Tok("Comparison", op), WS, right>>, None, None, None)

\* `a || b`
Concat(left, right) ==
    Group("Operation", <<left, WS, Tok("Operator", "||"), WS, right>>, None, None, None)

\* `a, b`
IdList(a, b) ==
    Group("IdentifierList", <<a, Punct(","), WS, b>>, None, None, None)

\* `WHERE c1` / `WHERE c1 AND c2`
WhereOf(conds) ==
    Group("Where",
          <<Kw("WHERE"), WS, conds[1]>>
            \o (IF Len(conds) > 1 THEN <<WS, Kw("AND"), WS, conds[2]>> ELSE <<>>),
          None, None, None)

-----------------------------------------------------------------------------
(* Accessors of the external parser *)

isinstance(token, cls) == token.cls = cls

get_real_name(token) == token.real_name
get_parent_name(token) == token.parent_name
get_alias(token) == token.alias

\* IdentifierList.get_identifiers(): the entries, without whitespace and commas.
get_identifiers(token) ==
    SelectSeq(token.tokens,
              LAMBDA t : ~(t.ttype = "Whitespace") /\ ~(t.ttype = "Punctuation" /\ t.value = ","))

\* Function.get_parameters(): the arguments inside the trailing parenthesis.
get_parameters(function) ==
    LET parenthesis == function.tokens[Len(function.tokens)]
        hits == SelectSeq(parenthesis.tokens,
                          LAMBDA t : t.cls \in {"IdentifierList", "Function", "Identifier"}
                                     \/ t.ttype = "Literal")
    IN  IF Len(hits) = 0 THEN <<>>
        ELSE IF Head(hits).cls = "IdentifierList" THEN get_identifiers(Head(hits))
        ELSE <<Head(hits)>>

\* Statement.get_type(): the upper-cased first DML keyword, else UNKNOWN.
get_type(statement) ==
    LET sig == SelectSeq(statement, LAMBDA t : ~(t.ttype = "Whitespace"))
    IN  IF Len(sig) > 0 /\ Head(sig).ttype = "DML" THEN Upper(Head(sig).value)
        ELSE "UNKNOWN"

-----------------------------------------------------------------------------
(* Python dict: insertion-ordered key/value pairs, keys unique *)

EmptyDict == <<>>

DictHas(d, k) == \E i \in 1..Len(d) : d[i].k = k

\* d[k] = v: overwrite in place, or append a new key.
DictSet(d, k, v) ==
    IF DictHas(d, k)
    THEN [i \in 1..Len(d) |-> IF d[i].k = k THEN [k |-> k, v |-> v] ELSE d[i]]
    ELSE Append(d, [k |-> k, v |-> v])

\* d.get(k, default)
DictGet(d, k, default) ==
    IF DictHas(d, k) THEN d[CHOOSE i \in 1..Len(d) : d[i].k = k].v ELSE default

RECURSIVE DictUpdate(_, _)
\* d.update(e)
DictUpdate(d, e) ==
    IF Len(e) = 0 THEN d
    ELSE DictUpdate(DictSet(d, Head(e).k, Head(e).v), Tail(e))

\* next(iter(d.values()), None)
FirstValue(d) == IF Len(d) = 0 THEN None ELSE d[1].v

-----------------------------------------------------------------------------
(* json.dumps(columns, indent=4) *)

JsonKeys ==
    <<"name", "alias", "section", "text", "table", "isJoinCondition", "joinText",
      "isFilterCondition", "conditionText", "isAggregation">>

BoolKeys == {"isJoinCondition", "isFilterCondition", "isAggregation"}

EscapeChar(c) ==
    CASE c = "\"" -> "\\\""
      [] c = "\\" -> "\\\\"
      [] c = "\n" -> "\\n"
      [] OTHER -> c

RECURSIVE Escape(_)
\* The string escapes of the JSON encoder, character by character.
Escape(s) ==
    IF Len(s) = 0 THEN ""
    ELSE IF Len(s) = 1 THEN EscapeChar(s)
    ELSE Escape(SubSeq(s, 1, Len(s) \div 2)) \o Escape(SubSeq(s, Len(s) \div 2 + 1, Len(s)))

JsonValue(d, key) ==
    IF key \in BoolKeys THEN (IF d[key] THEN "true" ELSE "false")
    ELSE IF d[key] = None THEN "null"
    ELSE "\"" \o Escape(d[key]) \o "\""

RECURSIVE JsonMembers(_, _)
JsonMembers(d, keys) ==
    IF Len(keys) = 0 THEN ""
    ELSE "        \"" \o Head(keys) \o "\": " \o JsonValue(d, Head(keys))
         \o (IF Len(keys) > 1 THEN ",\n" ELSE "\n")
         \o JsonMembers(d, Tail(keys))

JsonObject(d) ==
    "    {\n" \o JsonMembers(d, SelectSeq(JsonKeys, LAMBDA key : key \in DOMAIN d)) \o "    }"

RECURSIVE JsonItems(_)
JsonItems(columns) ==
    IF Len(columns) = 0 THEN ""
    ELSE JsonObject(Head(columns))
         \o (IF Len(columns) > 1 THEN ",\n" ELSE "\n")
         \o JsonItems(Tail(columns))

json_dumps(columns) ==
    IF Len(columns) = 0 THEN "[]" ELSE "[\n" \o JsonItems(columns) \o "]"

-----------------------------------------------------------------------------
(* The SQL inputs: statements assembled from select items, table sources   *)
(* and trailing clauses, each as the tree sqlparse builds for its text     *)

\* Largest number of statements in one input batch.
MaxStatements == 2

cId == QIdent("c", "id")
tCid == QIdent("t", "cid")
cDob == QIdent("c", "dob")
Lit(v) == Tok("Literal", v)

\* SELECT items FROM source tail
Select(item, source, tail) ==
    <<Tok("DML", "SELECT"), WS, item, WS, Kw("FROM"), WS, source>> \o tail

\* The statements used as subquery bodies.
SubquerySimple == Select(Ident("x"), Ident("t"), <<>>)
SubqueryAliased == Select(AsAliased(Ident("x"), "y"), Ident("t"), <<>>)

SelectItems ==
    { WildcardTok,
      cId,
      Ident("id"),
      AsAliased(cDob, "DOB"),
      QIdent("s", "x"),
      QIdent("y", "x"),
      QIdent("o", "num"),
      QIdent("c", "joined"),
      Func("SUM", <<tCid>>),
      Func("COUNT", <<WildcardTok>>),
      Wrapped(Func("SUM", <<cId>>), "SUM", "total"),
      Wrapped(Paren(<<Concat(QIdent("c", "ln"), QIdent("c", "fn"))>>), "full", "full"),
      IdList(cId, tCid),
      IdList(cDob, Func("SUM", <<tCid>>)) }

FromSources ==
    { Aliased(Ident("orders"), "o"),
      Aliased(Ident("customer"), "c"),
      Ident("customer"),
      Aliased(QIdent("sales", "customer"), "c"),
      IdList(Aliased(Ident("customer"), "c"), Aliased(Ident("tx"), "t")),
      Wrapped(Paren(SubquerySimple), "s", "s"),
      Paren(SubqueryAliased) }

JoinOn(keyword, source, cond) ==
    <<WS, Kw(keyword), WS, source, WS, Kw("ON"), WS, cond>>

JoinTx == JoinOn("INNER JOIN", Aliased(Ident("tx"), "t"), Compare(cId, "=", tCid))
JoinOrders ==
    JoinOn("LEFT JOIN", Aliased(Ident("orders"), "o"),
           Compare(QIdent("t", "oid"), "=", QIdent("o", "num")))
WhereDob == <<WS, WhereOf(<<Compare(cDob, "<", Lit("1980"))>>)>>

Tails ==
    { <<>>,
      JoinTx,
      JoinTx \o JoinOrders,
      JoinOn("JOIN", Aliased(Ident("joinlog"), "t"), Compare(cId, "=", tCid)),
      WhereDob,
      <<WS, WhereOf(<<Compare(QIdent("c", "valid_id"), "=", Lit("1")),
                      Compare(cDob, "<", Lit("1980"))>>)>>,
      <<WS, Group("Where", <<Kw("WHERE"), WS, Paren(<<Compare(cDob, "<", Lit("1980"))>>)>>,
                  None, None, None)>>,
      JoinTx \o WhereDob,
      <<WS, Kw("HAVING"), WS, Compare(QIdent("c", "valid_id"), "=", Lit("1"))>> }

SelectStatements ==
    { Select(item, source, tail) : item \in SelectItems, source \in FromSources, tail \in Tails }
      \cup {SubquerySimple, SubqueryAliased}

DeleteStatement == <<Tok("DML", "DELETE"), WS, Kw("FROM"), WS, Ident("orders")>>

\* The statements that multi-statement batches are drawn from.
BatchStatements ==
    { Select(cId, Aliased(Ident("customer"), "c"), <<>>),
      Select(cId, Aliased(Ident("orders"), "c"), JoinTx),
      Select(AsAliased(cDob, "DOB"), Ident("customer"), WhereDob),
      Select(WildcardTok, Aliased(Ident("orders"), "o"), <<>>),
      DeleteStatement }

\* A statement followed by another keeps its terminating `;`, which a
\* trailing WHERE clause swallows.
Terminated(statement) ==
    LET last == statement[Len(statement)]
    IN  IF last.cls = "Where"
        THEN [statement EXCEPT ![Len(statement)] =
                 Group("Where", last.tokens \o <<Punct(";")>>, None, None, None)]
        ELSE statement \o <<Punct(";")>>

Batches ==
    { <<statement>> : statement \in SelectStatements \cup {DeleteStatement} }
      \cup UNION { { [i \in 1..n |-> IF i < n THEN Terminated(b[i]) ELSE b[i]] :
                       b \in [1..n -> BatchStatements] } : n \in 2..MaxStatements }

RECURSIVE BatchValue(_)
BatchValue(batch) ==
    IF Len(batch) = 0 THEN ""
    ELSE JoinValues(Head(batch)) \o BatchValue(Tail(batch))

\* sqlparse.parse as a relation between SQL text and statement trees.
ParseTable == { <<BatchValue(batch), batch>> : batch \in Batches }

Inputs == { entry[1] : entry \in ParseTable }

\* sqlparse.parse(sql_query)
Parse(sql) == (CHOOSE entry \in ParseTable : entry[1] = sql)[2]

-----------------------------------------------------------------------------
(* src/sqlparser.py *)

RECURSIVE extract_columns_from_query(_)

\* get_token_alias: the alias of an Identifier or Function, else None.
get_token_alias(token) ==
    IF isinstance(token, "Identifier") \/ isinstance(token, "Function")
    THEN get_alias(token)
    ELSE None

\* extract_full_table_name: schema.table if schema exists, else just table.
extract_full_table_name(identifier) ==
    LET schema == get_parent_name(identifier)
        table == get_real_name(identifier)
    IN  IF schema # None THEN schema \o "." \o table ELSE table

\* extract_subquery: {alias: lineage of the inner statement}, or {} when the
\* node is not a Parenthesis.
extract_subquery(parenthesis) ==
    IF ~isinstance(parenthesis, "Parenthesis") THEN EmptyDict
    ELSE LET subquery_content == SubSeq(parenthesis.value, 2, Len(parenthesis.value) - 1)
             identifiers == SelectSeq(parenthesis.tokens, LAMBDA t : isinstance(t, "Identifier"))
             subquery_alias == IF Len(identifiers) = 0 THEN None
                               ELSE get_token_alias(Head(identifiers))
             subquery_columns == extract_columns_from_query(subquery_content)
         IN  DictSet(EmptyDict, subquery_alias, subquery_columns)

\* process_table_or_subquery
process_table_or_subquery(identifier) ==
    IF Contains("(", identifier.value)
    THEN LET subquery == extract_subquery(identifier)
         IN  IF Len(subquery) > 0 THEN DictUpdate(EmptyDict, subquery) ELSE EmptyDict
    ELSE DictSet(EmptyDict, get_token_alias(identifier), extract_full_table_name(identifier))

RECURSIVE UpdateAll(_, _)
\* table_aliases.update(process_table_or_subquery(i)) for each identifier i
UpdateAll(table_aliases, identifiers) ==
    IF Len(identifiers) = 0 THEN table_aliases
    ELSE UpdateAll(DictUpdate(table_aliases, process_table_or_subquery(Head(identifiers))),
                   Tail(identifiers))

RECURSIVE AliasScan(_, _, _)
\* The loop of extract_table_aliases over the remaining tokens.
AliasScan(tokens, from_seen, table_aliases) ==
    IF Len(tokens) = 0 THEN table_aliases
    ELSE LET token == Head(tokens)
             seen == from_seen \/ (token.ttype = "Keyword" /\ Upper(token.value) = "FROM")
             updated ==
                 IF ~seen THEN table_aliases
                 ELSE IF isinstance(token, "IdentifierList")
                      THEN UpdateAll(table_aliases, get_identifiers(token))
                 ELSE IF isinstance(token, "Identifier")
                      THEN DictUpdate(table_aliases, process_table_or_subquery(token))
                 ELSE IF isinstance(token, "Parenthesis")
                      THEN DictUpdate(table_aliases, extract_subquery(token))
                 ELSE table_aliases
         IN  AliasScan(Tail(tokens), seen, updated)

\* extract_table_aliases
extract_table_aliases(statement) == AliasScan(statement, FALSE, EmptyDict)

join_keywords == <<"JOIN", "LEFT JOIN", "RIGHT JOIN", "FULL OUTER JOIN">>

\* any(keyword in token.value.upper() for keyword in join_keywords)
MentionsJoin(token) ==
    \E i \in 1..Len(join_keywords) : Contains(join_keywords[i], Upper(token.value))

\* extract_join_conditions pairing every join with the last comparison.
extract_join_conditions_last(statement) ==
    LET comparisons == SelectSeq(statement, LAMBDA t : isinstance(t, "Comparison"))
        joins == SelectSeq(statement, MentionsJoin)
    IN  IF Len(comparisons) = 0 THEN <<>>
        ELSE [i \in 1..Len(joins) |-> comparisons[Len(comparisons)].value]

\* extract_join_conditions
extract_join_conditions(statement) ==
    LET comparisons == SelectSeq(statement, LAMBDA t : isinstance(t, "Comparison"))
        joins == SelectSeq(statement, MentionsJoin)
    IN  IF Len(comparisons) = 0 THEN <<>>
        ELSE [i \in 1..Len(joins) |-> Head(comparisons).value]

RECURSIVE FilterScan(_)
FilterScan(tokens) ==
    IF Len(tokens) = 0 THEN <<>>
    ELSE (IF isinstance(Head(tokens), "Where")
          THEN LET inner == SelectSeq(Head(tokens).tokens, LAMBDA t : isinstance(t, "Comparison"))
               IN  [i \in 1..Len(inner) |-> inner[i].value]
          ELSE <<>>)
         \o FilterScan(Tail(tokens))

\* extract_filter_conditions collecting the top-level comparisons as well.
extract_filter_conditions_any(statement) ==
    LET top == SelectSeq(statement, LAMBDA t : isinstance(t, "Comparison"))
    IN  [i \in 1..Len(top) |-> top[i].value] \o FilterScan(statement)

\* extract_filter_conditions
extract_filter_conditions(statement) == FilterScan(statement)

\* next((cond for cond in conditions if column_name in cond), None)
FirstContaining(column_name, conditions) ==
    LET hits == SelectSeq(conditions, LAMBDA cond : Contains(column_name, cond))
    IN  IF Len(hits) = 0 THEN None ELSE Head(hits)

\* any(column_name in cond for cond in conditions)
AnyContaining(column_name, conditions) ==
    \E i \in 1..Len(conditions) : Contains(column_name, conditions[i])

\* build_column_metadata
build_column_metadata(identifier, alias, text, table_aliases, join_conditions, filter_conditions) ==
    LET table_alias == get_parent_name(identifier)
        table == DictGet(table_aliases, table_alias, table_alias)
        column_name == get_real_name(identifier)
        is_join == AnyContaining(column_name, join_conditions)
        join_text == FirstContaining(column_name, join_conditions)
        is_filter == AnyContaining(column_name, filter_conditions)
        filter_text == FirstContaining(column_name, filter_conditions)
    IN  [name |-> column_name,
         alias |-> alias,
         section |-> "select",
         text |-> text,
         table |-> table,
         isJoinCondition |-> is_join,
         joinText |-> IF is_join THEN join_text ELSE None,
         isFilterCondition |-> is_filter,
         conditionText |-> IF is_filter THEN filter_text ELSE None]

\* parse_column
parse_column(identifier, table_aliases, join_conditions, filter_conditions) ==
    LET alias == get_token_alias(identifier)
    IN  IF Contains("(", identifier.value)
        THEN LET sub_identifiers ==
                     SelectSeq(identifier.tokens, LAMBDA t : isinstance(t, "Identifier"))
             IN  [i \in 1..Len(sub_identifiers) |->
                     build_column_metadata(sub_identifiers[i], alias, identifier.value,
                                           table_aliases, join_conditions, filter_conditions)]
        ELSE <<build_column_metadata(identifier, alias, identifier.value,
                                     table_aliases, join_conditions, filter_conditions)>>

\* parse_function
parse_function(function, table_aliases, join_conditions, filter_conditions) ==
    LET parameters == get_parameters(function)
        column_name == IF Len(parameters) > 0 THEN get_real_name(parameters[1]) ELSE None
        alias == get_token_alias(function)
        table_alias == get_parent_name(function)
        table == DictGet(table_aliases, table_alias, table_alias)
    IN  <<[name |-> column_name,
           alias |-> alias,
           section |-> "select",
           text |-> function.value,
           table |-> table,
           isJoinCondition |-> FALSE,
           joinText |-> None,
           isFilterCondition |-> FALSE,
           conditionText |-> None,
           isAggregation |-> TRUE]>>

\* The wildcard branch of step 4.
wildcard_column(token, table_aliases) ==
    [name |-> "*",
     alias |-> None,
     section |-> "select",
     text |-> token.value,
     table |-> FirstValue(table_aliases)]

RECURSIVE ParseColumns(_, _, _, _)
\* columns.extend(parse_column(i, ...)) for each identifier i of a list
ParseColumns(identifiers, table_aliases, join_conditions, filter_conditions) ==
    IF Len(identifiers) = 0 THEN <<>>
    ELSE parse_column(Head(identifiers), table_aliases, join_conditions, filter_conditions)
         \o ParseColumns(Tail(identifiers), table_aliases, join_conditions, filter_conditions)

\* Step 4 for one token of the statement: the descriptors it appends.
token_columns(token, table_aliases, join_conditions, filter_conditions) ==
    IF isinstance(token, "IdentifierList")
    THEN ParseColumns(get_identifiers(token), table_aliases, join_conditions, filter_conditions)
    ELSE IF isinstance(token, "Identifier")
    THEN parse_column(token, table_aliases, join_conditions, filter_conditions)
    ELSE IF isinstance(token, "Function")
    THEN parse_function(token, table_aliases, join_conditions, filter_conditions)
    ELSE IF token.ttype = "Wildcard"
    THEN <<wildcard_column(token, table_aliases)>>
    ELSE <<>>

\* The statement loop without its type check.
is_skipped_never(statement) == FALSE

\* `if not statement.get_type() == 'SELECT': continue`
is_skipped(statement) == ~(get_type(statement) = "SELECT")

RECURSIVE StepFour(_, _, _, _)
StepFour(tokens, table_aliases, join_conditions, filter_conditions) ==
    IF Len(tokens) = 0 THEN <<>>
    ELSE token_columns(Head(tokens), table_aliases, join_conditions, filter_conditions)
         \o StepFour(Tail(tokens), table_aliases, join_conditions, filter_conditions)

\* One iteration of the statement loop: the descriptors one statement appends.
statement_columns(statement) ==
    StepFour(statement, extract_table_aliases(statement),
             extract_join_conditions(statement), extract_filter_conditions(statement))

RECURSIVE batch_columns(_)
\* The statement loop of a nested call.
batch_columns(statements) ==
    IF Len(statements) = 0 THEN <<>>
    ELSE (IF is_skipped(Head(statements)) THEN <<>> ELSE statement_columns(Head(statements)))
         \o batch_columns(Tail(statements))

\* extract_columns_from_query, as called for a subquery body.
extract_columns_from_query(sql_text) == json_dumps(batch_columns(Parse(sql_text)))

-----------------------------------------------------------------------------
(* The top-level call of extract_columns_from_query, statement by statement *)

VARIABLES
    sql_query,          \* the argument
    parsed,             \* sqlparse.parse(sql_query)
    si,                 \* index of the statement the loop is at
    pc,                 \* position inside the loop body
    ti,                 \* index of the token step 4 is at
    table_aliases,
    join_conditions,
    filter_conditions,
    columns,
    result              \* the returned JSON text, None before the return

vars == <<sql_query, parsed, si, pc, ti, table_aliases, join_conditions,
          filter_conditions, columns, result>>

statement == parsed[si]

Init ==
    /\ sql_query \in Inputs
    /\ parsed = Parse(sql_query)
    /\ columns = <<>>
    /\ table_aliases = EmptyDict
    /\ join_conditions = <<>>
    /\ filter_conditions = <<>>
    /\ si = 1
    /\ ti = 0
    /\ pc = "loop"
    /\ result = None

\* A statement that is not a SELECT is skipped.
SkipStatement ==
    /\ pc = "loop"
    /\ si <= Len(parsed)
    /\ is_skipped(statement)
    /\ si' = si + 1
    /\ UNCHANGED <<sql_query, parsed, pc, ti, table_aliases, join_conditions,
                   filter_conditions, columns, result>>

\* Step 1
ExtractTableAliases ==
    /\ pc = "loop"
    /\ si <= Len(parsed)
    /\ ~is_skipped(statement)
    /\ table_aliases' = extract_table_aliases(statement)
    /\ pc' = "joins"
    /\ UNCHANGED <<sql_query, parsed, si, ti, join_conditions, filter_conditions,
                   columns, result>>

\* Step 2
ExtractJoinConditions ==
    /\ pc = "joins"
    /\ join_conditions' = extract_join_conditions(statement)
    /\ pc' = "filters"
    /\ UNCHANGED <<sql_query, parsed, si, ti, table_aliases, filter_conditions,
                   columns, result>>

\* Step 3
ExtractFilterConditions ==
    /\ pc = "filters"
    /\ filter_conditions' = extract_filter_conditions(statement)
    /\ pc' = "columns"
    /\ ti' = 1
    /\ UNCHANGED <<sql_query, parsed, si, table_aliases, join_conditions,
                   columns, result>>

\* Step 4, one token of the statement
ExtractColumns ==
    /\ pc = "columns"
    /\ ti <= Len(statement)
    /\ columns' = columns \o token_columns(statement[ti], table_aliases,
                                           join_conditions, filter_conditions)
    /\ ti' = ti + 1
    /\ UNCHANGED <<sql_query, parsed, si, pc, table_aliases, join_conditions,
                   filter_conditions, result>>

\* The token loop is exhausted: on to the next statement.
NextStatement ==
    /\ pc = "columns"
    /\ ti > Len(statement)
    /\ si' = si + 1
    /\ pc' = "loop"
    /\ UNCHANGED <<sql_query, parsed, ti, table_aliases, join_conditions,
                   filter_conditions, columns, result>>

\* return json.dumps(columns, indent=4)
Return ==
    /\ pc = "loop"
    /\ si > Len(parsed)
    /\ result' = json_dumps(columns)
    /\ pc' = "done"
    /\ UNCHANGED <<sql_query, parsed, si, ti, table_aliases, join_conditions,
                   filter_conditions, columns>>

Next ==
    \/ SkipStatement
    \/ ExtractTableAliases
    \/ ExtractJoinConditions
    \/ ExtractFilterConditions
    \/ ExtractColumns
    \/ NextStatement
    \/ Return

Spec == Init /\ [][Next]_vars

-----------------------------------------------------------------------------
(* Shapes of the statement the loop is at *)

\* The loop is past step 1 (step 2) of the current statement.
AfterStep1 == pc \in {"joins", "filters", "columns"}
AfterStep2 == pc \in {"filters", "columns"}

\* ExtractColumns is about to process token statement[ti].
AtToken == pc = "columns" /\ ti <= Len(statement)

\* The descriptors the step appended.
Emitted == SubSeq(columns', Len(columns) + 1, Len(columns'))

\* Position of the FROM keyword among the statement's tokens (0 if none).
FromIndex(tokens) ==
    IF \E k \in 1..Len(tokens) : tokens[k].ttype = "Keyword" /\ tokens[k].value = "FROM"
    THEN CHOOSE k \in 1..Len(tokens) :
            /\ tokens[k].ttype = "Keyword" /\ tokens[k].value = "FROM"
            /\ \A j \in 1..(k - 1) : ~(tokens[j].ttype = "Keyword" /\ tokens[j].value = "FROM")
    ELSE 0

\* An Identifier node that wraps a Parenthesis and carries an alias.
IsAliasedParenthesis(token) ==
    /\ token.cls = "Identifier"
    /\ token.alias # None
    /\ token.tokens[1].cls = "Parenthesis"

\* ... whose parenthesis holds a SELECT statement.
IsAliasedSubquery(token) ==
    /\ IsAliasedParenthesis(token)
    /\ token.tokens[1].tokens[2].ttype = "DML"

\* ... whose parenthesis holds an expression over two qualified columns.
IsAliasedExpression(token) ==
    /\ IsAliasedParenthesis(token)
    /\ token.tokens[1].tokens[2].cls = "Operation"

\* The text between the parentheses of an aliased subquery.
InnerText(token) ==
    SubSeq(token.tokens[1].value, 2, Len(token.tokens[1].value) - 1)

\* A table source that is no subquery: an Identifier without parenthesis.
IsPlainSource(token) == token.cls = "Identifier" /\ ~Contains("(", token.value)

\* The table sources of a statement: the Identifiers after FROM, the entries
\* of identifier lists included.
RECURSIVE Flatten(_)
Flatten(tokens) ==
    IF Len(tokens) = 0 THEN <<>>
    ELSE (IF Head(tokens).cls = "IdentifierList"
          THEN SelectSeq(Head(tokens).tokens, LAMBDA t : t.cls # "Token")
          ELSE <<Head(tokens)>>)
         \o Flatten(Tail(tokens))

TableSources(tokens) ==
    IF FromIndex(tokens) = 0 THEN <<>>
    ELSE SelectSeq(Flatten(SubSeq(tokens, FromIndex(tokens) + 1, Len(tokens))),
                   LAMBDA t : t.cls = "Identifier")

\* JOIN-family keyword tokens of a statement.
IsJoinKeyword(token) == token.ttype = "Keyword" /\ Contains("JOIN", token.value)
JoinKeywords(tokens) == SelectSeq(tokens, IsJoinKeyword)

\* Top-level Comparison nodes of a statement.
TopComparisons(tokens) == SelectSeq(tokens, LAMBDA t : t.cls = "Comparison")

-----------------------------------------------------------------------------
(* C1 *)

\* C1: after step 1, a FROM source `(SELECT ...) AS s` has bound s to the
\* serialized lineage of the inner statement, and a projected column
\* qualified by s carries that string as its table.
C1_SubqueryAliasBound ==
    /\ AfterStep1 =>
         \A k \in 1..Len(TableSources(statement)) :
            LET source == TableSources(statement)[k]
            IN  IsAliasedSubquery(source) =>
                  /\ DictHas(table_aliases, source.alias)
                  /\ DictGet(table_aliases, source.alias, None)
                       = extract_columns_from_query(InnerText(source))
    /\ (pc = "columns" /\ ti > 1 /\ ti - 1 < FromIndex(statement)) =>
         \A k \in 1..Len(TableSources(statement)) :
            LET source == TableSources(statement)[k]
                item == statement[ti - 1]
            IN  (IsAliasedSubquery(source) /\ IsPlainSource(item)
                   /\ item.parent_name = source.alias) =>
                  columns[Len(columns)].table
                    = extract_columns_from_query(InnerText(source))

-----------------------------------------------------------------------------
(* C2 *)

\* `SELECT * FROM table alias`: a lone wildcard over one aliased table.
IsWildcardOverAliasedTable(tokens) ==
    /\ Len(tokens) = 7
    /\ tokens[1].ttype = "DML" /\ tokens[1].value = "SELECT"
    /\ tokens[3].ttype = "Wildcard"
    /\ tokens[5].ttype = "Keyword" /\ tokens[5].value = "FROM"
    /\ IsPlainSource(tokens[7]) /\ tokens[7].alias # None

\* schema.table, or table
QualifiedName(source) ==
    IF source.parent_name # None
    THEN source.parent_name \o "." \o source.real_name
    ELSE source.real_name

\* C2: the result for `SELECT * FROM orders o` is exactly one descriptor,
\* named "*" with the table's qualified name; the table source after FROM
\* yields no descriptor.
C2_WildcardSingleDescriptor ==
    (pc = "done" /\ Len(parsed) = 1 /\ IsWildcardOverAliasedTable(parsed[1])) =>
        /\ Len(columns) = 1
        /\ columns[1].name = "*"
        /\ columns[1].table = QualifiedName(parsed[1][7])

-----------------------------------------------------------------------------
(* C3 *)

ConditionKeys == {"isJoinCondition", "joinText", "isFilterCondition", "conditionText"}

\* C3: every descriptor carries the four condition fields, each text field
\* is non-null exactly when its flag is true, and a wildcard descriptor has
\* both flags false.
C3_FlagsConsistent ==
    \A i \in 1..Len(columns) :
        LET d == columns[i]
        IN  /\ ConditionKeys \subseteq DOMAIN d
            /\ (d.joinText # None) <=> d.isJoinCondition
            /\ (d.conditionText # None) <=> d.isFilterCondition
            /\ (d.name = "*") => (~d.isJoinCondition /\ ~d.isFilterCondition)

-----------------------------------------------------------------------------
(* C8 *)

\* C8: after step 1 every non-subquery table source is bound under its alias,
\* or under its real name when it has no alias, to its qualified name; no
\* binding has a null key.
C8_SourceBoundUnderAliasOrName ==
    AfterStep1 =>
        /\ \A k \in 1..Len(TableSources(statement)) :
              LET source == TableSources(statement)[k]
                  key == IF source.alias # None THEN source.alias ELSE source.real_name
              IN  IsPlainSource(source) =>
                    /\ DictHas(table_aliases, key)
                    /\ DictGet(table_aliases, key, None) = QualifiedName(source)
        /\ (\E k \in 1..Len(TableSources(statement)) :
               IsPlainSource(TableSources(statement)[k]))
              => ~DictHas(table_aliases, None)

-----------------------------------------------------------------------------
(* C10 *)

\* C10: after step 2 the join-condition list has one entry per JOIN-family
\* keyword token, each the text of the first top-level Comparison (when there
\* is one), and is empty when no token is a JOIN-family keyword.
C10_OneEntryPerJoinKeyword ==
    AfterStep2 =>
        /\ Len(TopComparisons(statement)) > 0 =>
              /\ Len(join_conditions) = Len(JoinKeywords(statement))
              /\ \A i \in 1..Len(join_conditions) :
                    join_conditions[i] = TopComparisons(statement)[1].value
        /\ Len(JoinKeywords(statement)) = 0 => join_conditions = <<>>

-----------------------------------------------------------------------------
(* C7 *)

\* The column Identifiers inside the parenthesis of an aliased expression.
InnerColumns(token) ==
    SelectSeq(token.tokens[1].tokens[2].tokens, LAMBDA t : t.cls = "Identifier")

\* C7: step 4 on a projected `(q1.a || q2.b) AS n` appends exactly two
\* descriptors, one per inner column, both with alias n and with the full
\* expression as text.
C7_TwoDescriptorsPerExpression ==
    [][(AtToken /\ ti < FromIndex(statement) /\ IsAliasedExpression(statement[ti])) =>
          /\ Len(Emitted) = 2
          /\ \A i \in 1..2 :
                /\ Emitted[i].name = InnerColumns(statement[ti])[i].real_name
                /\ Emitted[i].alias = statement[ti].alias
                /\ Emitted[i].text = statement[ti].value]_vars

-----------------------------------------------------------------------------
(* C9 *)

\* The real name of a function call's first argument, None without one.
FirstArgumentName(function) ==
    LET args == SelectSeq(function.tokens[2].tokens, LAMBDA t : t.cls = "Identifier")
    IN  IF Len(args) = 0 THEN None ELSE args[1].real_name

IsAggregationOf(d, function) ==
    /\ "isAggregation" \in DOMAIN d
    /\ d.isAggregation
    /\ d.name = FirstArgumentName(function)
    /\ d.text = function.value
    /\ ~d.isJoinCondition
    /\ ~d.isFilterCondition

\* The projected items a select-list token stands for.
Entries(token) ==
    IF token.cls = "IdentifierList"
    THEN SelectSeq(token.tokens, LAMBDA t : t.cls # "Token")
    ELSE <<token>>

\* C9: step 4 appends one descriptor per projected item, and the descriptor
\* of a function call, top-level or entry of an identifier list, is an
\* aggregation descriptor named after the call's first argument.
C9_FunctionDescriptor ==
    [][(AtToken /\ ti < FromIndex(statement)
          /\ \E j \in 1..Len(Entries(statement[ti])) :
                Entries(statement[ti])[j].cls = "Function") =>
          /\ Len(Emitted) = Len(Entries(statement[ti]))
          /\ \A j \in 1..Len(Entries(statement[ti])) :
                Entries(statement[ti])[j].cls = "Function" =>
                    IsAggregationOf(Emitted[j], Entries(statement[ti])[j])]_vars

-----------------------------------------------------------------------------
(* C4 *)

\* The Comparison nodes that are the ON clause of a JOIN: the token after
\* `ON `.
OnComparisons(tokens) ==
    { m \in 3..Len(tokens) :
        /\ tokens[m].cls = "Comparison"
        /\ tokens[m - 2].ttype = "Keyword" /\ tokens[m - 2].value = "ON" }

\* A descriptor of build_column_metadata: it has the condition fields and
\* is no aggregation.
IsPlainDescriptor(d) ==
    /\ "isJoinCondition" \in DOMAIN d
    /\ "isAggregation" \notin DOMAIN d

\* C4 as stated: with a JOIN whose ON clause is C, every descriptor whose
\* name occurs in C's text, function-derived ones included, is flagged as a
\* join condition with C's text.
C4_JoinCorrelation ==
    [][AtToken =>
          \A m \in OnComparisons(statement) : \A i \in 1..Len(Emitted) :
              (Emitted[i].name # None /\ Contains(Emitted[i].name, statement[m].value)) =>
                  /\ "isJoinCondition" \in DOMAIN Emitted[i]
                  /\ Emitted[i].isJoinCondition
                  /\ Emitted[i].joinText = statement[m].value]_vars

\* C4 amended: in a statement with a JOIN keyword, with C the first top-level
\* Comparison of the statement, every descriptor of build_column_metadata
\* whose name occurs in C's text is flagged as a join condition with C's text.
C4_FirstComparisonCorrelation ==
    [][(AtToken /\ Len(JoinKeywords(statement)) > 0 /\ Len(TopComparisons(statement)) > 0) =>
          \A i \in 1..Len(Emitted) :
              (IsPlainDescriptor(Emitted[i])
                 /\ Contains(Emitted[i].name, TopComparisons(statement)[1].value)) =>
                  /\ Emitted[i].isJoinCondition
                  /\ Emitted[i].joinText = TopComparisons(statement)[1].value]_vars

\* Two joins with different ON clauses, and a projected column flagged with
\* the first one's text.
C4_Witness ==
    /\ pc = "columns"
    /\ Len(JoinKeywords(statement)) = 2
    /\ TopComparisons(statement)[1].value # TopComparisons(statement)[2].value
    /\ \E i \in 1..Len(columns) :
          /\ IsPlainDescriptor(columns[i])
          /\ columns[i].isJoinCondition
          /\ columns[i].joinText = TopComparisons(statement)[1].value

-----------------------------------------------------------------------------
(* C5 *)

\* The texts of the Comparison nodes directly inside the WHERE node.
WhereComparisons(tokens) ==
    LET wheres == SelectSeq(tokens, LAMBDA t : t.cls = "Where")
        direct == IF Len(wheres) = 0 THEN <<>>
                  ELSE SelectSeq(wheres[1].tokens, LAMBDA t : t.cls = "Comparison")
    IN  [i \in 1..Len(direct) |-> direct[i].value]

-----------------------------------------------------------------------------
(* C6 *)

IsSelect(tokens) == tokens[1].ttype = "DML" /\ tokens[1].value = "SELECT"

RECURSIVE ConcatAlone(_)
\* The descriptor lists of the SELECT statements run alone, concatenated.
ConcatAlone(statements) ==
    IF Len(statements) = 0 THEN <<>>
    ELSE (IF IsSelect(Head(statements)) THEN statement_columns(Head(statements)) ELSE <<>>)
         \o ConcatAlone(Tail(statements))

\* C6: the result for a batch is the concatenation, in statement order, of
\* the results of its SELECT statements run alone; other statements add
\* nothing.
C6_BatchIsConcatenation ==
    pc = "done" =>
        /\ columns = ConcatAlone(parsed)
        /\ result = json_dumps(ConcatAlone(parsed))

\* A finished batch of two SELECTs that bind the same alias to different
\* tables, each descriptor resolved by its own statement's binding.
C6_Witness ==
    /\ pc = "done"
    /\ Len(parsed) >= 2
    /\ \E i, j \in 1..Len(columns) :
          /\ i < j
          /\ columns[i].text = "c.id" /\ columns[i].table = "customer"
          /\ columns[j].text = "c.id" /\ columns[j].table = "orders"

====
